---- MODULE Spec2Model ----
(***************************************************************************)
(* Model of the reconciliation-and-enrichment pipeline of                  *)
(* src/src/collector.py (class OCICostCollector).                          *)
(*                                                                         *)
(* Strings are sequences of tokens.  The token alphabet is a prefix code   *)
(* (no token is a prefix of another), so two token sequences are equal     *)
(* exactly when the Python strings they stand for are equal, and Python's  *)
(* string concatenation is \o.  A cell of a pandas DataFrame is a token    *)
(* sequence, or NaN (the filler pandas puts where a record has no key).    *)
(***************************************************************************)
EXTENDS Naturals, Integers, Sequences, FiniteSets, TLC

VARIABLES pc, data1, data2, df_merged, df_final, compute_instances, idx,
          instance_metadata, successful, failed, log, success, reason,
          exit_code

vars == <<pc, data1, data2, df_merged, df_final, compute_instances, idx,
          instance_metadata, successful, failed, log, success, reason,
          exit_code>>

-----------------------------------------------------------------------------
(* Bounds of the model: the longest item list a billing query returns.     *)
MaxCost == 2
MaxUsage == 2

-----------------------------------------------------------------------------
(* Values                                                                  *)

Str(t) == <<t>>
EmptyStr == <<>>
NaN == <<"<NaN>">>

(* Python's None, the default of row.get(name) *)
PyNone == <<"<None>">>

(* pd.isna(v) *)
IsNa(v) == v \in {NaN, PyNone}

(* Series.astype(str): NaN becomes the string "nan", a string stays itself *)
AsTypeStr(v) ==
  IF v = NaN THEN <<"nan">> ELSE IF v = PyNone THEN <<"None">> ELSE v

(* Resource identifiers used by the records below *)
IdA == <<"ocid1", ".", "instance", ".", "oc1", ".", "reg", ".", "u1">>
IdB == <<"ocid1", ".", "INSTANCE", ".", "oc1", ".", "reg", ".", "u2">>
IdM == <<"instance", ".", "oc1">>
IdR == <<"r2">>

(* a resourceId that reads "nan" *)
IdNan == <<"nan">>


-----------------------------------------------------------------------------
(* Billing records (UsageRecord): mappings of field names to values.  The  *)
(* cost query and the usage query return records with different field sets *)

Rec(id, t) == ("resourceId" :> id) @@ ("timeUsageStarted" :> t)

CostItems ==
  { Rec(IdA, Str("d1")) @@ ("cost" :> Str("10")),
    Rec(IdB, Str("d1")) @@ ("cost" :> Str("20")),
    Rec(IdM, Str("d1")) @@ ("cost" :> Str("30")),
    Rec(IdR, Str("d1")) @@ ("cost" :> Str("40")) @@ ("shape" :> Str("X")),
    Rec(IdA, Str("d1")) @@ ("cost" :> Str("50")) @@ ("shape" :> Str("X"))
                        @@ ("resourceName" :> EmptyStr),
    ("timeUsageStarted" :> Str("d1")) @@ ("cost" :> Str("60")) }

UsageItems ==
  { Rec(IdA, Str("d1")) @@ ("platform" :> Str("p1")) @@ ("shape" :> Str("Y")),
    Rec(IdA, Str("d1")) @@ ("platform" :> Str("p2")),
    Rec(IdNan, Str("d1")) @@ ("platform" :> Str("p1")) @@ ("shape" :> EmptyStr) }

SeqsUpTo(S, n) == UNION { [1..k -> S] : k \in 0..n }

-----------------------------------------------------------------------------
(* make_api_call: the outcome of the `oci raw-request` subprocess, and     *)
(* what make_api_call returns for it (None or the dict holding "items").   *)

None == [ok |-> FALSE, items |-> <<>>]
ApiData(items) == [ok |-> TRUE, items |-> items]

ApiResults(Items, n) ==
  { [kind |-> k, returncode |-> 0, body |-> "none", items |-> <<>>] :
        k \in {"timeout", "exception"} }
  \cup { [kind |-> "exit", returncode |-> 1, body |-> "none", items |-> <<>>],
         [kind |-> "exit", returncode |-> 0, body |-> "error", items |-> <<>>],
         [kind |-> "exit", returncode |-> 0, body |-> "unexpected", items |-> <<>>] }
  \cup { [kind |-> "exit", returncode |-> 0, body |-> "items", items |-> s] :
        s \in SeqsUpTo(Items, n) }

make_api_call(result) ==
  IF result.kind # "exit" THEN None
  ELSE IF result.returncode # 0 THEN None
  ELSE IF result.body = "error" THEN None
  ELSE IF result.body = "items" THEN ApiData(result.items)
  ELSE None

-----------------------------------------------------------------------------
(* pandas tables: a set of column names and a sequence of rows, each row a *)
(* function from the column names to cells.                                *)

Keys(items) == UNION { DOMAIN items[i] : i \in DOMAIN items }

(* pd.DataFrame(items): the columns are the union of the records' keys, a  *)
(* record without a key gets NaN in that column                            *)
DataFrame(items) ==
  [columns |-> Keys(items),
   rows |-> [i \in DOMAIN items |->
               [c \in Keys(items) |->
                  IF c \in DOMAIN items[i] THEN items[i][c] ELSE NaN]]]

(* df['resourceId'].astype(str) + '_' + df['timeUsageStarted'].astype(str) *)
merge_key(row) ==
  AsTypeStr(row["resourceId"]) \o <<"_">> \o AsTypeStr(row["timeUsageStarted"])

(* variant: a table without rows still has the key columns *)
HasKeyColumns_OrEmpty(df) ==
  df.rows = <<>> \/ {"resourceId", "timeUsageStarted"} \subseteq df.columns

(* df[...] on these columns raises KeyError when one is no column of df    *)
HasKeyColumns(df) == {"resourceId", "timeUsageStarted"} \subseteq df.columns

Whitelist == {"platform", "region", "skuPartNumber", "shape", "resourceName"}

(* df2_cols without 'merge_key': the whitelisted columns that df2 has      *)
df2_cols(df2) == { c \in Whitelist : c \in df2.columns }

(* variant: the right-hand column is not renamed *)
MergedName_NoSuffix(c, leftCols) == c

(* suffixes=('', '_from_call2'): a right-hand column whose name the left   *)
(* table also has is renamed, the left one keeps its name                  *)
MergedName(c, leftCols) == IF c \in leftCols THEN c \o "_from_call2" ELSE c

MergedColumns(df1, df2) ==
  df1.columns \cup { MergedName(c, df1.columns) : c \in df2_cols(df2) }

(* the usage-side rows whose key equals the key of the cost-side row, in   *)
(* source order                                                            *)
Matches(l, df2) == SelectSeq(df2.rows, LAMBDA r : merge_key(r) = merge_key(l))

(* one row of the joined table: the left row's cells, then the right       *)
(* row's whitelisted cells under their merged names                        *)
JoinRow(l, r, df1, df2) ==
  [c \in MergedColumns(df1, df2) |->
     IF c \in df1.columns THEN l[c]
     ELSE r[CHOOSE c2 \in df2_cols(df2) : MergedName(c2, df1.columns) = c]]

NullRight(df2) == [c \in df2.columns |-> NaN]

(* variant: how='inner', a left row with no match is dropped *)
RowsFor_Inner(l, df1, df2) ==
  LET ms == Matches(l, df2)
  IN [j \in DOMAIN ms |-> JoinRow(l, ms[j], df1, df2)]

(* how='left': a left row with no match is kept once with NaN on the       *)
(* right; a left row with n matches yields n rows, in right-hand order     *)
RowsFor(l, df1, df2) ==
  LET ms == Matches(l, df2)
  IN IF ms = <<>>
     THEN << JoinRow(l, NullRight(df2), df1, df2) >>
     ELSE [j \in DOMAIN ms |-> JoinRow(l, ms[j], df1, df2)]

RECURSIVE MergeRows(_, _, _, _)
MergeRows(i, rows, df1, df2) ==
  IF i > Len(df1.rows) THEN rows
  ELSE MergeRows(i + 1, rows \o RowsFor(df1.rows[i], df1, df2), df1, df2)

(* df1.merge(df2[df2_cols], on='merge_key', how='left', suffixes=...)      *)
(* followed by .drop('merge_key', axis=1)                                  *)
Merge(df1, df2) ==
  [columns |-> MergedColumns(df1, df2),
   rows |-> MergeRows(1, <<>>, df1, df2)]


-----------------------------------------------------------------------------
(* Candidate selection (lines 209-212)                                     *)

Lower(t) == IF t = "INSTANCE" THEN "instance" ELSE IF t = "OC1" THEN "oc1" ELSE t

(* the one-character tokens: the '.' of a regular expression matches any   *)
(* one of them                                                             *)
AnyChar(t) == t \in {".", "_", "-"}

(* Series.str.contains('instance.oc1', na=False, case=False): the pattern  *)
(* is a regular expression, matched anywhere in the string, ignoring case  *)
ContainsInstanceOc1(v) ==
  /\ ~IsNa(v)
  /\ \E i \in 1..Len(v) :
        /\ i + 2 <= Len(v)
        /\ Lower(v[i]) = "instance"
        /\ AnyChar(v[i + 1])
        /\ Lower(v[i + 2]) = "oc1"

InSeq(x, s) == \E i \in DOMAIN s : s[i] = x

RECURSIVE UniqueFrom(_, _, _)
UniqueFrom(i, acc, s) ==
  IF i > Len(s) THEN acc
  ELSE UniqueFrom(i + 1, IF InSeq(s[i], acc) THEN acc ELSE Append(acc, s[i]), s)

(* variant: the values are not reduced to the distinct ones *)
Unique_NoDedup(s) == s

(* Series.unique().tolist(): the distinct values, in order of appearance   *)
Unique(s) == UniqueFrom(1, <<>>, s)

Column(df, c) == [i \in DOMAIN df.rows |-> df.rows[i][c]]

ComputeInstances(df) ==
  Unique(SelectSeq(Column(df, "resourceId"), ContainsInstanceOc1))

-----------------------------------------------------------------------------
(* fetch_instance_metadata (lines 96-163)                                  *)

RECURSIVE SplitFrom(_, _, _, _)
SplitFrom(i, cur, parts, s) ==
  IF i > Len(s) THEN Append(parts, cur)
  ELSE IF s[i] = "." THEN SplitFrom(i + 1, <<>>, Append(parts, cur), s)
  ELSE SplitFrom(i + 1, Append(cur, s[i]), parts, s)

(* instance_id.split('.') *)
Split(s) == SplitFrom(1, <<>>, <<>>, s)

MinParts == 4
PauseEvery == 10

(* whether a region can be taken from the identifier (line 110)            *)
CanParseRegion(instance_id) == Len(Split(instance_id)) >= MinParts

(* parts[3] *)
Region(instance_id) == Split(instance_id)[MinParts]

(* The outcome of `oci compute instance get`: a timeout, another           *)
(* exception, or an exit with a return code and a standard output that is  *)
(* no JSON, JSON without "data", or JSON with "data".                      *)
NoData == [k \in {} |-> EmptyStr]
FullData == ("shape" :> Str("E4")) @@ ("display-name" :> Str("n1"))

LookupResults ==
  { [kind |-> "timeout", returncode |-> 0, body |-> "none", data |-> NoData],
    [kind |-> "exception", returncode |-> 0, body |-> "none", data |-> NoData],
    [kind |-> "exit", returncode |-> 1, body |-> "none", data |-> NoData],
    [kind |-> "exit", returncode |-> 0, body |-> "invalid", data |-> NoData],
    [kind |-> "exit", returncode |-> 0, body |-> "nodata", data |-> NoData],
    [kind |-> "exit", returncode |-> 0, body |-> "data", data |-> NoData],
    [kind |-> "exit", returncode |-> 0, body |-> "data", data |-> FullData] }

(* dict.get(key, default) *)
Get(d, key, default) == IF key \in DOMAIN d THEN d[key] ELSE default

(* lines 135-143: the lookup succeeded and an entry is recorded            *)
LookupOk(result) ==
  /\ result.kind = "exit"
  /\ result.returncode = 0
  /\ result.body = "data"

(* lines 139-142 *)
MetadataEntry(result) ==
  [shape |-> Get(result.data, "shape", EmptyStr),
   resourceName |-> Get(result.data, "display-name", EmptyStr)]

-----------------------------------------------------------------------------
(* Enrichment (lines 225-242)                                              *)

IsMissing(v) == IsNa(v) \/ v = EmptyStr

(* variant: the field is written whether or not it is missing *)
PatchField_Always(row, name, metadata) == (name :> metadata[name]) @@ row

(* variant: only the shape is patched *)
enrich_row_ShapeOnly(row, md) ==
  IF Get(row, "resourceId", EmptyStr) \in DOMAIN md
  THEN IF IsMissing(Get(row, "shape", PyNone))
       THEN ("shape" :> md[row["resourceId"]]["shape"]) @@ row
       ELSE row
  ELSE row

(* enrich_row (lines 228-236): the row after the patch; a field the row    *)
(* did not have is added to it                                             *)
PatchField(row, name, metadata) ==
  IF IsMissing(Get(row, name, PyNone)) THEN (name :> metadata[name]) @@ row
  ELSE row

enrich_row(row, md) ==
  IF Get(row, "resourceId", EmptyStr) \in DOMAIN md
  THEN PatchField(PatchField(row, "shape", md[row["resourceId"]]),
                  "resourceName", md[row["resourceId"]])
  ELSE row

(* df.apply(enrich_row, axis=1): the table built from the returned rows;   *)
(* its columns are the union of the rows' fields, NaN where a row has none *)
Apply(df, md) == DataFrame([i \in DOMAIN df.rows |-> enrich_row(df.rows[i], md)])

(* lines 241-242: df_merged['shape'] and df_merged['resourceName'] raise   *)
(* KeyError when the table has no such column                              *)
CanCount(df) == {"shape", "resourceName"} \subseteq df.columns


-----------------------------------------------------------------------------
(* The run: collect() (lines 257-308) and main() (lines 333-334).          *)
(* df_merged is the table written to output.csv, df_final the table        *)
(* written to output_merged.csv.  log is the sequence of the run's outside *)
(* effects: queries, file writes, metadata lookups, pauses, the report.    *)

NoTable == [columns |-> {}, rows |-> <<>>]
NoMetadata == [k \in {} |-> [shape |-> EmptyStr, resourceName |-> EmptyStr]]
NotExited == -1

(* a lookup is logged with the region it was scoped to and whether it     *)
(* ended in a recorded entry                                               *)
Ev(e, a) == [ev |-> e, arg |-> a, region |-> EmptyStr, ok |-> TRUE]
LookupEv(id, result) ==
  [ev |-> "lookup", arg |-> id, region |-> Region(id), ok |-> LookupOk(result)]

Init ==
  /\ pc = "Idle"
  /\ data1 = None
  /\ data2 = None
  /\ df_merged = NoTable
  /\ df_final = NoTable
  /\ compute_instances = <<>>
  /\ idx = 0
  /\ instance_metadata = NoMetadata
  /\ successful = 0
  /\ failed = 0
  /\ log = <<>>
  /\ success = "unset"
  /\ reason = "none"
  /\ exit_code = NotExited

(* collect() is entered (lines 257-266) *)
Collect ==
  /\ pc = "Idle"
  /\ pc' = "QueryingCost"
  /\ UNCHANGED <<data1, data2, df_merged, df_final, compute_instances, idx,
                 instance_metadata, successful, failed, log, success, reason,
                 exit_code>>

(* variant: the None check after the COST query is missing *)
CostQuery_NoCheck ==
  /\ pc = "QueryingCost"
  /\ \E result \in ApiResults(CostItems, MaxCost) : data1' = make_api_call(result)
  /\ pc' = "QueryingUsage"
  /\ log' = Append(log, Ev("query", Str("COST")))
  /\ UNCHANGED <<data2, df_merged, df_final, compute_instances, idx,
                 instance_metadata, successful, failed, success, reason, exit_code>>

(* lines 267-276: the COST query; None ends the run *)
CostQuery ==
  /\ pc = "QueryingCost"
  /\ \E result \in ApiResults(CostItems, MaxCost) :
        /\ data1' = make_api_call(result)
        /\ IF make_api_call(result) = None
           THEN pc' = "Failed" /\ success' = "False" /\ reason' = "QueryFailed"
           ELSE pc' = "QueryingUsage" /\ UNCHANGED <<success, reason>>
  /\ log' = Append(log, Ev("query", Str("COST")))
  /\ UNCHANGED <<data2, df_merged, df_final, compute_instances, idx,
                 instance_metadata, successful, failed, exit_code>>

(* lines 278-287: the USAGE query; None ends the run *)
UsageQuery ==
  /\ pc = "QueryingUsage"
  /\ \E result \in ApiResults(UsageItems, MaxUsage) :
        /\ data2' = make_api_call(result)
        /\ IF make_api_call(result) = None
           THEN pc' = "Failed" /\ success' = "False" /\ reason' = "QueryFailed"
           ELSE pc' = "Merging" /\ UNCHANGED <<success, reason>>
  /\ log' = Append(log, Ev("query", Str("USAGE")))
  /\ UNCHANGED <<data1, df_merged, df_final, compute_instances, idx,
                 instance_metadata, successful, failed, exit_code>>

(* lines 293-302: the report of the output files, then return True *)
Report(l) == Append(l, Ev("report", Str("artifacts")))

(* merge_and_enrich up to the first metadata lookup (lines 171-218), and   *)
(* to its end when no compute instance is found (lines 248-255).  An       *)
(* exception is caught by collect (lines 304-308).                         *)
MergeStep ==
  /\ pc = "Merging"
  /\ LET df1 == DataFrame(data1.items)
         df2 == DataFrame(data2.items)
         raw == Append(log, Ev("write", Str("out.json")))
         merged == Merge(df1, df2)
         basic == Append(raw, Ev("write", Str("output.csv")))
     IN IF ~(HasKeyColumns(df1) /\ HasKeyColumns(df2))
        THEN /\ pc' = "Failed" /\ success' = "False" /\ reason' = "MergeEnrichFailed"
             /\ log' = raw
             /\ UNCHANGED <<df_merged, df_final, compute_instances>>
        ELSE /\ df_merged' = merged
             /\ compute_instances' = ComputeInstances(merged)
             /\ IF Len(ComputeInstances(merged)) > 0
                THEN /\ pc' = "Enriching"
                     /\ log' = basic
                     /\ UNCHANGED <<df_final, success>>
                ELSE /\ pc' = "Done" /\ success' = "True"
                     /\ df_final' = merged
                     /\ log' = Report(Append(basic, Ev("write", Str("output_merged.csv"))))
             /\ UNCHANGED reason
  /\ UNCHANGED <<data1, data2, idx, instance_metadata, successful, failed, exit_code>>

(* variant: the skipped identifier is not counted as a failure *)
FetchSkip_Uncounted ==
  /\ pc = "Enriching"
  /\ idx < Len(compute_instances)
  /\ ~CanParseRegion(compute_instances[idx + 1])
  /\ idx' = idx + 1
  /\ UNCHANGED <<pc, data1, data2, df_merged, df_final, compute_instances,
                 instance_metadata, successful, failed, log, success, reason,
                 exit_code>>

(* one turn of the loop of fetch_instance_metadata for an identifier with  *)
(* fewer than four fields (lines 107-113)                                  *)
FetchSkip ==
  /\ pc = "Enriching"
  /\ idx < Len(compute_instances)
  /\ ~CanParseRegion(compute_instances[idx + 1])
  /\ idx' = idx + 1
  /\ failed' = failed + 1
  /\ UNCHANGED <<pc, data1, data2, df_merged, df_final, compute_instances,
                 instance_metadata, successful, log, success, reason, exit_code>>

(* the pause after every tenth identifier (lines 155-157) *)
Paced(l, i) == IF i % PauseEvery = 0 THEN Append(l, Ev("sleep", EmptyStr)) ELSE l

(* variant: a failed lookup ends the loop *)
FetchLookup_Abort ==
  /\ pc = "Enriching"
  /\ idx < Len(compute_instances)
  /\ CanParseRegion(compute_instances[idx + 1])
  /\ \E result \in LookupResults :
        /\ log' = Paced(Append(log, LookupEv(compute_instances[idx + 1], result)), idx + 1)
        /\ IF LookupOk(result)
           THEN /\ instance_metadata' =
                     (compute_instances[idx + 1] :> MetadataEntry(result))
                        @@ instance_metadata
                /\ successful' = successful + 1
                /\ idx' = idx + 1
                /\ UNCHANGED failed
           ELSE /\ failed' = failed + 1
                /\ idx' = Len(compute_instances)
                /\ UNCHANGED <<instance_metadata, successful>>
  /\ UNCHANGED <<pc, data1, data2, df_merged, df_final, compute_instances,
                 success, reason, exit_code>>

(* variant: a lookup that fails is not counted *)
FetchLookup_Uncounted ==
  /\ pc = "Enriching"
  /\ idx < Len(compute_instances)
  /\ CanParseRegion(compute_instances[idx + 1])
  /\ idx' = idx + 1
  /\ \E result \in LookupResults :
        /\ log' = Paced(Append(log, LookupEv(compute_instances[idx + 1], result)), idx + 1)
        /\ IF LookupOk(result)
           THEN /\ instance_metadata' =
                     (compute_instances[idx + 1] :> MetadataEntry(result))
                        @@ instance_metadata
                /\ successful' = successful + 1
           ELSE UNCHANGED <<instance_metadata, successful>>
  /\ UNCHANGED <<pc, data1, data2, df_merged, df_final, compute_instances,
                 failed, success, reason, exit_code>>

(* one turn of the loop with a lookup (lines 115-157) *)
FetchLookup ==
  /\ pc = "Enriching"
  /\ idx < Len(compute_instances)
  /\ CanParseRegion(compute_instances[idx + 1])
  /\ idx' = idx + 1
  /\ \E result \in LookupResults :
        /\ log' = Paced(Append(log, LookupEv(compute_instances[idx + 1], result)), idx + 1)
        /\ IF LookupOk(result)
           THEN /\ instance_metadata' =
                     (compute_instances[idx + 1] :> MetadataEntry(result))
                        @@ instance_metadata
                /\ successful' = successful + 1
                /\ UNCHANGED failed
           ELSE /\ failed' = failed + 1
                /\ UNCHANGED <<instance_metadata, successful>>
  /\ UNCHANGED <<pc, data1, data2, df_merged, df_final, compute_instances,
                 success, reason, exit_code>>

(* the rest of merge_and_enrich once the loop has ended (lines 220-255)    *)
FinishEnrich ==
  /\ pc = "Enriching"
  /\ idx = Len(compute_instances)
  /\ LET cached == Append(log, Ev("write", Str("instance_metadata.json")))
         applied == Apply(df_merged, instance_metadata)
     IN IF ~CanCount(applied)
        THEN /\ pc' = "Failed" /\ success' = "False" /\ reason' = "MergeEnrichFailed"
             /\ log' = cached
             /\ UNCHANGED df_final
        ELSE /\ pc' = "Done" /\ success' = "True"
             /\ df_final' = applied
             /\ log' = Report(Append(cached, Ev("write", Str("output_merged.csv"))))
             /\ UNCHANGED reason
  /\ UNCHANGED <<data1, data2, df_merged, compute_instances, idx,
                 instance_metadata, successful, failed, exit_code>>

(* variant: the exit code ignores the result of collect() *)
ExitCode_AlwaysZero(s) == 0

(* 0 if success else 1 (line 334) *)
ExitCode(s) == IF s = "True" THEN 0 ELSE 1

(* main: sys.exit(0 if success else 1) (lines 333-334) *)
Exit ==
  /\ pc \in {"Done", "Failed"}
  /\ exit_code = NotExited
  /\ exit_code' = ExitCode(success)
  /\ UNCHANGED <<pc, data1, data2, df_merged, df_final, compute_instances, idx,
                 instance_metadata, successful, failed, log, success, reason>>

Next ==
  \/ Collect
  \/ CostQuery
  \/ UsageQuery
  \/ MergeStep
  \/ FetchSkip
  \/ FetchLookup
  \/ FinishEnrich
  \/ Exit

Spec == Init /\ [][Next]_vars


-----------------------------------------------------------------------------
(* Properties                                                              *)

CostTable == DataFrame(data1.items)
UsageTable == DataFrame(data2.items)

Written(file) == InSeq(Ev("write", Str(file)), log)

(* the basic merged table exists: line 206 was reached *)
MergeDone == Written("output.csv")

(* the row agrees with the cost-side row on every cost-side column *)
KeepsCost(r, l, ct) == \A c \in ct.columns : r[c] = l[c]

(* the name under which the merged table carries usage-side column c *)
CarriedName(c, ct) == IF c \in ct.columns THEN c \o "_from_call2" ELSE c

(* the row carries the usage-side row's whitelisted values *)
Carries(r, u, ct, ut) ==
  \A c \in df2_cols(ut) :
     /\ CarriedName(c, ct) \in DOMAIN r
     /\ r[CarriedName(c, ct)] = u[c]

(* C1, as claimed: the merged table has exactly as many rows as the        *)
(* cost-side sequence, also when several usage-side records share a        *)
(* resourceId and timeUsageStarted.                                        *)
C1_MergeCardinality ==
  MergeDone => Len(df_merged.rows) = Len(data1.items)

(* C2, as claimed: every merged row built from a cost-side record whose    *)
(* key has usage-side matches carries the whitelisted columns of the first *)
(* usage-side record with that key in source order, and of no other.       *)
C2_FirstMatchOnly ==
  MergeDone =>
    LET ct == CostTable
        ut == UsageTable
    IN \A i \in DOMAIN ct.rows :
         LET ms == Matches(ct.rows[i], ut)
         IN ms # <<>> =>
              \A k \in DOMAIN df_merged.rows :
                 KeepsCost(df_merged.rows[k], ct.rows[i], ct)
                 => Carries(df_merged.rows[k], ms[1], ct, ut)

(* C3, as claimed: for every cost-side record and matching usage-side      *)
(* record the merged table has a row that keeps every cost-side value and  *)
(* carries the usage-side value of each whitelisted column under the       *)
(* column's own name, also when the cost side has a column of that name.   *)
C3_CarriedUnderOwnName ==
  MergeDone =>
    LET ct == CostTable
        ut == UsageTable
    IN \A i \in DOMAIN ct.rows :
         LET ms == Matches(ct.rows[i], ut)
         IN \A j \in DOMAIN ms :
              \E k \in DOMAIN df_merged.rows :
                 /\ KeepsCost(df_merged.rows[k], ct.rows[i], ct)
                 /\ \A c \in df2_cols(ut) : df_merged.rows[k][c] = ms[j][c]

(* C3, amended: for every cost-side record and matching usage-side record  *)
(* the merged table has a row that keeps every cost-side value and carries *)
(* the usage-side value of each whitelisted column: under the column's own *)
(* name when the cost-side table has no column of that name, and under the *)
(* name followed by "_from_call2" when it has one.                         *)
C3_CarriedUnderMergedName ==
  MergeDone =>
    LET ct == CostTable
        ut == UsageTable
    IN \A i \in DOMAIN ct.rows :
         LET ms == Matches(ct.rows[i], ut)
         IN \A j \in DOMAIN ms :
              \E k \in DOMAIN df_merged.rows :
                 /\ KeepsCost(df_merged.rows[k], ct.rows[i], ct)
                 /\ Carries(df_merged.rows[k], ms[j], ct, ut)

(* a merged table in which a matched cost-side record has its own shape,   *)
(* different from the shape of its usage-side match, and in which the      *)
(* platform is a column of the usage side alone                            *)
C3_Witness ==
  /\ MergeDone
  /\ LET ct == CostTable
         ut == UsageTable
     IN /\ "shape" \in ct.columns
        /\ "shape" \in df2_cols(ut)
        /\ "platform" \in df2_cols(ut)
        /\ "platform" \notin ct.columns
        /\ \E i \in DOMAIN ct.rows :
             LET ms == Matches(ct.rows[i], ut)
             IN /\ ms # <<>>
                /\ ~IsMissing(ms[1]["shape"])
                /\ ~IsMissing(ct.rows[i]["shape"])
                /\ ct.rows[i]["shape"] # ms[1]["shape"]

(* C4: every cost-side record whose key matches no usage-side record is in *)
(* the merged table, once per occurrence, with its cost-side values        *)
(* unchanged and with NaN in every column carried over from the usage side *)
C4_UnmatchedSurvives ==
  MergeDone =>
    LET ct == CostTable
        ut == UsageTable
    IN \A i \in DOMAIN ct.rows :
         Matches(ct.rows[i], ut) = <<>> =>
           /\ Cardinality({k \in DOMAIN df_merged.rows :
                              KeepsCost(df_merged.rows[k], ct.rows[i], ct)})
                = Cardinality({n \in DOMAIN ct.rows : ct.rows[n] = ct.rows[i]})
           /\ \A k \in DOMAIN df_merged.rows :
                KeepsCost(df_merged.rows[k], ct.rows[i], ct)
                => Carries(df_merged.rows[k], NullRight(ut), ct, ut)

(* a merged table with an unmatched cost-side record next to a matched one *)
C4_Witness ==
  /\ MergeDone
  /\ LET ct == CostTable
         ut == UsageTable
     IN /\ df2_cols(ut) # {}
        /\ \E i, n \in DOMAIN ct.rows :
             /\ Matches(ct.rows[i], ut) = <<>>
             /\ Matches(ct.rows[n], ut) # <<>>

EnrichFields == {"shape", "resourceName"}

(* the row's resourceId has an entry in the metadata mapping *)
HasEntry(row) == row["resourceId"] \in DOMAIN instance_metadata

Entry(row) == instance_metadata[row["resourceId"]]

(* C5: in a finished run every row of the merged table is a row of the     *)
(* enriched table, and a shape or resourceName that was neither NaN nor    *)
(* empty before the enrichment has the same value after it.                *)
C5_BackfillAdditive ==
  pc = "Done" =>
    /\ Len(df_final.rows) = Len(df_merged.rows)
    /\ \A k \in DOMAIN df_merged.rows : \A name \in EnrichFields :
         (name \in df_merged.columns /\ ~IsMissing(df_merged.rows[k][name]))
         => /\ name \in DOMAIN df_final.rows[k]
            /\ df_final.rows[k][name] = df_merged.rows[k][name]

(* a finished run with a row whose shape was populated before the          *)
(* enrichment and whose resourceId got a metadata entry with another shape *)
C5_Witness ==
  /\ pc = "Done"
  /\ "shape" \in df_merged.columns
  /\ \E k \in DOMAIN df_merged.rows :
       /\ ~IsMissing(df_merged.rows[k]["shape"])
       /\ HasEntry(df_merged.rows[k])
       /\ Entry(df_merged.rows[k]).shape # df_merged.rows[k]["shape"]
       /\ ~IsMissing(Entry(df_merged.rows[k]).shape)

Lookup(n) == log[n].ev = "lookup"

BatchEnded == Len(compute_instances) > 0 /\ idx = Len(compute_instances)

(* C6: when the loop of fetch_instance_metadata has ended, every candidate *)
(* from which a region can be taken has been looked up exactly once        *)
(* whatever the outcome of the other lookups, every lookup that succeeded  *)
(* has its metadata entry, the failure counter is the number of candidates *)
(* that were skipped or whose lookup failed, a run with a successful       *)
(* lookup does not fail, and in a finished run the rows of a successful    *)
(* candidate have their missing fields filled from its entry.              *)
C6_FailureIsolation ==
  /\ BatchEnded =>
       /\ \A i \in DOMAIN compute_instances :
            CanParseRegion(compute_instances[i]) =>
              Cardinality({n \in DOMAIN log :
                 Lookup(n) /\ log[n].arg = compute_instances[i]}) = 1
       /\ \A n \in DOMAIN log :
            (Lookup(n) /\ log[n].ok) => log[n].arg \in DOMAIN instance_metadata
       /\ failed =
            Cardinality({i \in DOMAIN compute_instances :
                            ~CanParseRegion(compute_instances[i])})
            + Cardinality({n \in DOMAIN log : Lookup(n) /\ ~log[n].ok})
       /\ (\E n \in DOMAIN log : Lookup(n) /\ log[n].ok) => pc # "Failed"
  /\ (BatchEnded /\ pc = "Done") =>
       \A n \in DOMAIN log : \A k \in DOMAIN df_merged.rows :
          (Lookup(n) /\ log[n].ok /\ df_merged.rows[k]["resourceId"] = log[n].arg)
          => \A name \in EnrichFields :
                /\ name \in DOMAIN df_final.rows[k]
                /\ ~IsNa(df_final.rows[k][name])
                /\ IsMissing(Get(df_merged.rows[k], name, PyNone))
                     => df_final.rows[k][name] = instance_metadata[log[n].arg][name]

(* a finished run in which the first lookup failed and a later one         *)
(* succeeded and filled a missing shape                                    *)
C6_Witness ==
  /\ pc = "Done"
  /\ BatchEnded
  /\ \E m, n \in DOMAIN log :
       /\ m < n
       /\ Lookup(m) /\ ~log[m].ok
       /\ Lookup(n) /\ log[n].ok
       /\ \E k \in DOMAIN df_merged.rows :
            /\ df_merged.rows[k]["resourceId"] = log[n].arg
            /\ IsMissing(Get(df_merged.rows[k], "shape", PyNone))
            /\ df_final.rows[k]["shape"] = Str("E4")

Queried(q) == InSeq(Ev("query", Str(q)), log)

EmptyResponse(data) == data = None \/ data.items = <<>>

NoArtifact ==
  \A n \in DOMAIN log : log[n].ev \notin {"write", "lookup"}

(* C7, as claimed: once a billing query has returned None or zero items    *)
(* the merge step is never started, nothing is written, no lookup is made, *)
(* and the run ends Failed with reason QueryFailed.                        *)
C7_EmptyQueryFails ==
  ((Queried("COST") /\ EmptyResponse(data1)) \/ (Queried("USAGE") /\ EmptyResponse(data2)))
  => /\ pc \notin {"Merging", "Enriching", "Done"}
     /\ NoArtifact
     /\ pc = "Failed" => reason = "QueryFailed"

(* C8, as claimed: once both queries have returned records and the merge   *)
(* has succeeded, the run does not go to Failed, whatever the lookups do.  *)
C8_EnrichNeverFails ==
  (/\ data1 # None /\ data1.items # <<>>
   /\ data2 # None /\ data2.items # <<>>
   /\ MergeDone)
  => pc # "Failed"

Reported == InSeq(Ev("report", Str("artifacts")), log)

(* C9: the exit code is 0 exactly when the run is Done and 1 exactly when  *)
(* it is Failed; a Done run had data from both queries and wrote the basic *)
(* and the enriched table, a Failed run wrote no enriched table; the       *)
(* output files are reported only in a Done run.                           *)
C9_ExitCode ==
  /\ exit_code # NotExited =>
       /\ pc \in {"Done", "Failed"}
       /\ exit_code = 0 <=> pc = "Done"
       /\ exit_code = 1 <=> pc = "Failed"
  /\ pc = "Done" =>
       data1 # None /\ data2 # None /\ MergeDone /\ Written("output_merged.csv")
  /\ pc = "Failed" => ~Written("output_merged.csv")
  /\ Reported => pc = "Done" /\ exit_code \in {NotExited, 0}

(* a run with metadata lookups that reported its output files and exited   *)
(* with 0                                                                  *)
C9_Witness ==
  /\ exit_code = 0
  /\ Reported
  /\ BatchEnded

(* C10: in a finished run, a row whose resourceId has a metadata entry has *)
(* each of shape and resourceName that was NaN, empty or not a column      *)
(* before the enrichment equal to the entry's value, and every other cell  *)
(* of every row is as it was before.                                       *)
C10_PatchMissing ==
  (pc = "Done" /\ BatchEnded) =>
    /\ Len(df_final.rows) = Len(df_merged.rows)
    /\ \A k \in DOMAIN df_merged.rows :
         /\ \A name \in EnrichFields :
              (HasEntry(df_merged.rows[k])
                 /\ IsMissing(Get(df_merged.rows[k], name, PyNone)))
              => /\ name \in DOMAIN df_final.rows[k]
                 /\ df_final.rows[k][name] = Entry(df_merged.rows[k])[name]
         /\ \A c \in df_merged.columns :
              ~(c \in EnrichFields /\ HasEntry(df_merged.rows[k])
                  /\ IsMissing(df_merged.rows[k][c]))
              => df_final.rows[k][c] = df_merged.rows[k][c]

(* a finished run with a row that had a shape and an empty resourceName    *)
(* and whose resourceId got a metadata entry                               *)
C10_Witness ==
  /\ pc = "Done"
  /\ BatchEnded
  /\ EnrichFields \subseteq df_merged.columns
  /\ \E k \in DOMAIN df_merged.rows :
       /\ HasEntry(df_merged.rows[k])
       /\ ~IsMissing(df_merged.rows[k]["shape"])
       /\ IsMissing(df_merged.rows[k]["resourceName"])
       /\ df_final.rows[k]["resourceName"] = Str("n1")

-----------------------------------------------------------------------------
Terminal == {"Done", "Failed"}

(* the steps between stages that keep the order Idle, QueryingCost,        *)
(* QueryingUsage, Merging, Enriching, Done, with Failed as a way out       *)
StageSteps ==
  { <<"Idle", "QueryingCost">>,
    <<"QueryingCost", "QueryingUsage">>, <<"QueryingCost", "Failed">>,
    <<"QueryingUsage", "Merging">>, <<"QueryingUsage", "Failed">>,
    <<"Merging", "Enriching">>, <<"Merging", "Done">>, <<"Merging", "Failed">>,
    <<"Enriching", "Enriching">>, <<"Enriching", "Done">>, <<"Enriching", "Failed">>,
    <<"Done", "Done">>, <<"Failed", "Failed">> }

IsEv(n, e, a) == log[n].ev = e /\ log[n].arg = Str(a)

Before(n, e, a) == \E m \in 1..(n - 1) : IsEv(m, e, a)

(* the order of the outside effects of a run *)
LogOrdered ==
  \A n \in DOMAIN log :
     /\ IsEv(n, "query", "USAGE") => (Before(n, "query", "COST") /\ data1 # None)
     /\ log[n].ev = "write" =>
          /\ Before(n, "query", "COST") /\ Before(n, "query", "USAGE")
          /\ data1 # None /\ data2 # None
     /\ Lookup(n) => Before(n, "write", "output.csv")
     /\ IsEv(n, "write", "output_merged.csv") =>
          /\ idx = Len(compute_instances)
          /\ \A m \in DOMAIN log : Lookup(m) => m < n
          /\ \A i \in DOMAIN compute_instances :
                CanParseRegion(compute_instances[i]) =>
                   \E m \in 1..(n - 1) : Lookup(m) /\ log[m].arg = compute_instances[i]

C13_EmptyInputFails ==
  (Written("out.json") /\ (data1.items = <<>> \/ data2.items = <<>>))
  => /\ pc = "Failed"
     /\ reason = "MergeEnrichFailed"
     /\ ~Written("output.csv")
     /\ ~Written("output_merged.csv")
     /\ exit_code \in {NotExited, 1}

(* a run that exited with 1 after a usage query that returned no record    *)
(* while the cost query returned some                                      *)
C13_Witness ==
  /\ Written("out.json")
  /\ data1.items # <<>>
  /\ HasKeyColumns(CostTable)
  /\ data2 # None
  /\ data2.items = <<>>
  /\ exit_code = 1

LookupsOf(id) == {m \in DOMAIN log : Lookup(m) /\ log[m].arg = id}

(* C14: every lookup of a run is for a resourceId that is a string, occurs *)
(* in a row of the merged table and matches the pattern instance.oc1, and  *)
(* no resourceId is looked up more than once, whether its lookup failed or *)
(* not and however many rows carry it.                                     *)
C14_OneLookupPerId ==
  \A n \in DOMAIN log :
     Lookup(n) =>
       /\ ~IsNa(log[n].arg)
       /\ \E k \in DOMAIN df_merged.rows : df_merged.rows[k]["resourceId"] = log[n].arg
       /\ ContainsInstanceOc1(log[n].arg)
       /\ Cardinality(LookupsOf(log[n].arg)) = 1

(* the loop has ended after a failed lookup of a resourceId that two rows  *)
(* of the merged table carry                                               *)
C14_Witness ==
  /\ BatchEnded
  /\ \E n \in DOMAIN log :
       /\ Lookup(n) /\ ~log[n].ok
       /\ \E j, k \in DOMAIN df_merged.rows :
            /\ j < k
            /\ df_merged.rows[j]["resourceId"] = log[n].arg
            /\ df_merged.rows[k]["resourceId"] = log[n].arg

(* the number of dot-separated fields of an identifier *)
DotFields(id) == 1 + Cardinality({i \in DOMAIN id : id[i] = "."})

Malformed(id) == DotFields(id) < 4

(* no identifier with fewer than four fields was looked up or has an entry *)
MalformedUntouched ==
  \A i \in DOMAIN compute_instances :
     Malformed(compute_instances[i]) =>
        /\ compute_instances[i] \notin DOMAIN instance_metadata
        /\ LookupsOf(compute_instances[i]) = {}

(* C15: the turn of the loop for a candidate with fewer than four fields   *)
(* makes no lookup and no pause, adds exactly one to the failure counter,  *)
(* records no entry, and leaves the loop at the next candidate; no such    *)
(* candidate is ever looked up or given an entry.                          *)
C15_MalformedSkipped ==
  [][ /\ (/\ pc = "Enriching"
          /\ idx < Len(compute_instances)
          /\ Malformed(compute_instances[(idx + 1)]))
         => /\ idx' = idx + 1
            /\ failed' = failed + 1
            /\ successful' = successful
            /\ log' = log
            /\ instance_metadata' = instance_metadata
            /\ pc' = "Enriching"
      /\ MalformedUntouched' ]_vars

(* the loop skipped its first candidate and looked up the second *)
C15_Witness ==
  /\ pc = "Enriching"
  /\ idx = 2
  /\ Malformed(compute_instances[1])
  /\ failed >= 1
  /\ LookupsOf(compute_instances[2]) # {}

(* C16, as claimed: a run that is Done has written instance_metadata.json  *)
(* exactly once, also when no candidate was found, and the mapping written *)
(* has exactly the identifiers whose lookup succeeded as its keys.         *)
C16_CacheWrittenOnce ==
  pc = "Done" =>
    /\ Cardinality({n \in DOMAIN log : IsEv(n, "write", "instance_metadata.json")}) = 1
    /\ DOMAIN instance_metadata = {log[n].arg : n \in {m \in DOMAIN log : Lookup(m) /\ log[m].ok}}

(* C17: after every turn of the loop successful + failed is the number of  *)
(* candidates processed and instance_metadata has `successful` entries,    *)
(* all of them for candidates processed; once fetch_instance_metadata has  *)
(* returned, successful + failed is the number of candidates.              *)
C17_CounterInvariant ==
  /\ idx <= Len(compute_instances)
  /\ successful + failed = idx
  /\ Cardinality(DOMAIN instance_metadata) = successful
  /\ DOMAIN instance_metadata \subseteq {compute_instances[i] : i \in 1..idx}
  /\ Written("instance_metadata.json") => successful + failed = Len(compute_instances)

(* fetch_instance_metadata has returned after a success and a failure *)
C17_Witness ==
  /\ Written("instance_metadata.json")
  /\ successful >= 1
  /\ failed >= 1

(* C18, as claimed: a usage-side record is joined to a cost-side record    *)
(* only if the two have the same resourceId and the same timeUsageStarted, *)
(* an absent value being equal to an absent value only.                    *)
C18_KeyInjective ==
  MergeDone =>
    LET ct == CostTable
        ut == UsageTable
    IN \A i \in DOMAIN ct.rows :
         LET ms == Matches(ct.rows[i], ut)
         IN \A j \in DOMAIN ms :
              /\ ms[j]["resourceId"] = ct.rows[i]["resourceId"]
              /\ ms[j]["timeUsageStarted"] = ct.rows[i]["timeUsageStarted"]

-----------------------------------------------------------------------------
(* The loop of fetch_instance_metadata on longer candidate lists: the run  *)
(* is taken up where merge_and_enrich calls fetch_instance_metadata (line  *)
(* 218), after a cost query that returned one record per candidate.  At    *)
(* most one identifier of the list has fewer than four fields.  The pacing *)
(* does not depend on what a lookup returns: here every lookup fails.      *)

MaxCandidates == 12

GoodId(i) ==
  <<"ocid1", ".", "instance", ".", "oc1", ".", "reg", ".", ToString(100 + i)>>
BadId(i) == <<"instance", ".", "oc1", "-", ToString(100 + i)>>

CandidateLists ==
  { [i \in 1..k |-> IF i = bad THEN BadId(i) ELSE GoodId(i)] :
       k \in 1..MaxCandidates, bad \in 0..MaxCandidates }

CostOf(ids) == [i \in DOMAIN ids |-> Rec(ids[i], Str("d1")) @@ ("cost" :> Str("10"))]

UsageOfR == << Rec(IdR, Str("d1")) @@ ("platform" :> Str("p1")) >>

MergedLog ==
  << Ev("query", Str("COST")), Ev("query", Str("USAGE")),
     Ev("write", Str("out.json")), Ev("write", Str("output.csv")) >>

PacingInit ==
  /\ pc = "Enriching"
  /\ \E ids \in CandidateLists :
        /\ data1 = ApiData(CostOf(ids))
        /\ df_merged = Merge(DataFrame(CostOf(ids)), DataFrame(UsageOfR))
        /\ compute_instances =
              ComputeInstances(Merge(DataFrame(CostOf(ids)), DataFrame(UsageOfR)))
  /\ data2 = ApiData(UsageOfR)
  /\ df_final = NoTable
  /\ idx = 0
  /\ instance_metadata = NoMetadata
  /\ successful = 0
  /\ failed = 0
  /\ log = MergedLog
  /\ success = "unset"
  /\ reason = "none"
  /\ exit_code = NotExited

(* a turn of the loop whose lookup fails (lines 144-153) *)
FetchLookupFailing == FetchLookup /\ successful' = successful

PacingNext ==
  \/ FetchSkip
  \/ FetchLookupFailing

PacingSpec == PacingInit /\ [][PacingNext]_vars

RECURSIVE SincePause(_, _)
(* the number of lookups among the last n events that follow the last pause *)
SincePause(l, n) ==
  IF n = 0 \/ l[n].ev = "sleep" THEN 0
  ELSE SincePause(l, n - 1) + (IF l[n].ev = "lookup" THEN 1 ELSE 0)

(* C12, as claimed: at no point of the loop have more than ten lookups     *)
(* been made since the last pause (or since the start of the loop), also   *)
(* when the list holds an identifier that is skipped.                      *)
C12_PacedLookups == SincePause(log, Len(log)) <= PauseEvery

====
